---------------------------- MODULE Spec2Model ----------------------------
(***************************************************************************)
(* A model of safe-disclosure: the Tokenizer (tokenizer.py), the           *)
(* RoleManager (roles.py) and the SafeDisclosure engine (core.py).         *)
(*                                                                         *)
(* Python strings are sequences of one-character strings, so that          *)
(* str.replace, str.startswith, str.split, str.upper, str.lower and the    *)
(* `in` test are computed character by character, as Python computes them. *)
(* A dict is a function; a dict whose iteration order the code relies on   *)
(* (the token mapping returned by redact_document) is a sequence of        *)
(* <<key, value>> pairs in insertion order.                                *)
(***************************************************************************)
EXTENDS Integers, Sequences, FiniteSets

VARIABLES
    entity_tokens,   \* Tokenizer.entity_tokens   : entity_value -> token
    token_entities,  \* Tokenizer.token_entities  : token -> <<entity_type, entity_value>>
    calls,           \* what generate_token returned to its direct callers since the
                     \* last clear_tokens, in call order: records
                     \* [entity_type, entity_value, token]
    nCalls,          \* number of direct Tokenizer calls made so far
    roles,           \* RoleManager.roles         : role name -> record
    nRoleOps,        \* number of add_role / load_roles calls made so far
    doc,             \* the last redact_document call: its inputs and what it returned
    nRedacts,        \* number of redact_document calls made so far
    rest,            \* the last restore_document call: its inputs and what it returned
    nRestores,       \* number of restore_document calls made so far
    prev,            \* the redact_document call before the last one
    iter_order,      \* the order in which this process enumerates each set of
                     \* matches its loops have enumerated: set -> sequence
    dropped,         \* the values and the tokens of the bindings that clear_tokens
                     \* calls removed: [values, tokens]
    probe,           \* the last lookup of a string in the Tokenizer: the string
                     \* and what the two lookup methods returned for it
    thr,             \* the callers that run generate_token on the shared Tokenizer
                     \* statement by statement: caller -> [pc, arguments, locals]
    sync             \* whether those callers put a lock around each call

vars == <<entity_tokens, token_entities, calls, nCalls, roles, nRoleOps, doc, nRedacts,
          rest, nRestores, prev, iter_order, dropped, probe, thr, sync>>

tokVars == <<entity_tokens, token_entities, calls, nCalls, dropped, probe, thr, sync>>
engVars == <<roles, nRoleOps, doc, nRedacts, rest, nRestores, prev, iter_order>>

---------------------------------------------------------------------------
(* Bounds of the model.                                                    *)

\* direct Tokenizer calls (generate_token, clear_tokens, lookups) in one behaviour
MaxCalls == 3
\* distinct outcomes of the random 12-character hash suffix
NumSuffix == 2
\* add_role / load_roles calls in one behaviour
MaxRoleOps == 1
\* redact_document calls in one behaviour
MaxRedacts == 1
\* redact_document calls on one engine in a behaviour of repeated redaction
MaxSessionRedacts == 2
\* restore_document calls in one behaviour
MaxRestores == 1

\* hexdigest()[:12]
HashLen == 12

---------------------------------------------------------------------------
(* Python string operations.                                               *)

lowers == <<"a","b","c","d","e","f","g","h","i","j","k","l","m","n","o","p","q","r","s","t","u","v","w","x","y","z">>
uppers == <<"A","B","C","D","E","F","G","H","I","J","K","L","M","N","O","P","Q","R","S","T","U","V","W","X","Y","Z">>

\* str.upper() on one character
UpperChar(c) ==
    IF \E i \in 1..Len(lowers) : lowers[i] = c
    THEN uppers[CHOOSE i \in 1..Len(lowers) : lowers[i] = c]
    ELSE c

\* str.lower() on one character
LowerChar(c) ==
    IF \E i \in 1..Len(uppers) : uppers[i] = c
    THEN lowers[CHOOSE i \in 1..Len(uppers) : uppers[i] = c]
    ELSE c

Upper(s) == [i \in 1..Len(s) |-> UpperChar(s[i])]
Lower(s) == [i \in 1..Len(s) |-> LowerChar(s[i])]

\* s.startswith(p)
StartsWith(s, p) == Len(p) <= Len(s) /\ SubSeq(s, 1, Len(p)) = p

\* sub in s
Contains(s, sub) ==
    \E i \in 1..(Len(s) + 1) :
        i + Len(sub) - 1 <= Len(s) /\ SubSeq(s, i, i + Len(sub) - 1) = sub

\* s.replace(old, new), old not empty: every non-overlapping occurrence of
\* old, scanning from the left
RECURSIVE Replace(_, _, _)
Replace(s, old, new) ==
    IF Len(s) < Len(old) THEN s
    ELSE IF SubSeq(s, 1, Len(old)) = old
         THEN new \o Replace(SubSeq(s, Len(old) + 1, Len(s)), old, new)
         ELSE <<Head(s)>> \o Replace(Tail(s), old, new)

\* s.count(sub), sub not empty: the number of non-overlapping occurrences
RECURSIVE Count(_, _)
Count(s, sub) ==
    IF Len(s) < Len(sub) THEN 0
    ELSE IF SubSeq(s, 1, Len(sub)) = sub
         THEN 1 + Count(SubSeq(s, Len(sub) + 1, Len(s)), sub)
         ELSE Count(Tail(s), sub)

\* s.split(d) for a one-character d: the list of parts
RECURSIVE Split(_, _)
Split(s, d) ==
    IF \E i \in 1..Len(s) : s[i] = d
    THEN LET k == CHOOSE i \in 1..Len(s) : s[i] = d /\ \A j \in 1..(i - 1) : s[j] # d
         IN  <<SubSeq(s, 1, k - 1)>> \o Split(SubSeq(s, k + 1, Len(s)), d)
    ELSE <<s>>

---------------------------------------------------------------------------
(* Entity types and the Tokenizer.                                         *)

email         == <<"e","m","a","i","l">>
phone         == <<"p","h","o","n","e">>
ssn           == <<"s","s","n">>
credit_card   == <<"c","r","e","d","i","t","_","c","a","r","d">>
ip_address    == <<"i","p","_","a","d","d","r","e","s","s">>
name          == <<"n","a","m","e">>
\* caller-defined tags (custom entities, configured roles)
code          == <<"c","o","d","e">>
name_internal == <<"n","a","m","e","_","i","n","t","e","r","n","a","l">>

\* the sentinel get_entity_type_from_token returns
unknown       == <<"u","n","k","n","o","w","n">>

\* Tokenizer.__init__: token_prefix = "TOKEN_"
token_prefix == <<"T","O","K","E","N","_">>

hexdigits == <<"a","1","c","3","e","5","0","b","2","d","4","f","6","7","8","9">>

\* The outcomes of sha256(f"{type}:{value}:{secrets.token_hex(8)}").hexdigest()[:12]
\* the model draws from: HashLen hexadecimal characters. The salt is random, so
\* the same suffix can be drawn twice.
Suffixes == { [k \in 1..HashLen |-> hexdigits[i]] : i \in 1..NumSuffix }

\* token = f"{self.token_prefix}{entity_type.upper()}_{entity_hash}"
format_token(entity_type, entity_hash) ==
    token_prefix \o Upper(entity_type) \o <<"_">> \o entity_hash

\* d[k] = v on a dict
DictSet(d, k, v) == [x \in DOMAIN d \cup {k} |-> IF x = k THEN v ELSE d[x]]

EmptyDict == [x \in {} |-> x]

\* generate_token without the reuse of an existing token (lines 30-31 missing)
generate_token_no_reuse(et, te, entity_type, entity_value, entity_hash) ==
    LET token == format_token(entity_type, entity_hash)
    IN  [token          |-> token,
         entity_tokens  |-> DictSet(et, entity_value, token),
         token_entities |-> DictSet(te, token, <<entity_type, entity_value>>)]

\* generate_token on the registry <<et, te>>, with entity_hash the suffix drawn
\* by this call: the token returned and the registry afterwards
generate_token(et, te, entity_type, entity_value, entity_hash) ==
    IF entity_value \in DOMAIN et
    THEN [token |-> et[entity_value], entity_tokens |-> et, token_entities |-> te]
    ELSE LET token == format_token(entity_type, entity_hash)
         IN  [token          |-> token,
              entity_tokens  |-> DictSet(et, entity_value, token),
              token_entities |-> DictSet(te, token, <<entity_type, entity_value>>)]

\* get_entity_type_from_token without the test len(parts) >= 2
get_entity_type_from_token_any_parts(te, token) ==
    IF token \in DOMAIN te THEN te[token][1]
    ELSE IF StartsWith(token, token_prefix)
         THEN Lower(Split(SubSeq(token, Len(token_prefix) + 1, Len(token)), "_")[1])
         ELSE unknown

\* get_entity_type_from_token on a Tokenizer whose token_entities is te
get_entity_type_from_token(te, token) ==
    IF token \in DOMAIN te THEN te[token][1]
    ELSE IF StartsWith(token, token_prefix)
         THEN LET parts == Split(SubSeq(token, Len(token_prefix) + 1, Len(token)), "_")
              IN  IF Len(parts) >= 2 THEN Lower(parts[1]) ELSE unknown
         ELSE unknown

\* get_original_value on a Tokenizer whose token_entities is te
get_original_value(te, token) ==
    IF token \in DOMAIN te THEN te[token][2] ELSE token

\* clear_tokens that clears entity_tokens only
clear_tokens_values_only(et, te) ==
    [entity_tokens |-> EmptyDict, token_entities |-> te]

\* clear_tokens on the registry <<et, te>>: the registry afterwards
clear_tokens(et, te) ==
    [entity_tokens |-> EmptyDict, token_entities |-> EmptyDict]

---------------------------------------------------------------------------
(* Texts and the entity values in them.                                    *)

ValName    == <<"B","o","b"," ","L","e","e">>
ValEmail   == <<"a","@","b",".","c","o">>
ValPhone   == <<"5","5","5","-","1","2","3","-","4","5","6","7">>
ValMailbox == <<"5","5","5","-","1","2","3","-","4","5","6","7","@","b",".","c","o">>
ValAlBo    == <<"A","l"," ","B","o">>
ValIp      == <<"1","0",".","0",".","0",".","1">>
ValCode    == <<"C","O","D","E">>

\* "Bob Lee a@b.co 555-123-4567"
TextContact == ValName \o <<" ">> \o ValEmail \o <<" ">> \o ValPhone
\* "555-123-4567@b.co"
TextMailbox == ValMailbox
\* "Al Bo 10.0.0.1"
TextServer  == ValAlBo \o <<" ">> \o ValIp
\* "see CODE"
TextMemo    == <<"s","e","e"," ">> \o ValCode

---------------------------------------------------------------------------
(* Direct use of one Tokenizer.                                            *)

\* the entity types and values direct callers pass to generate_token
TokTypes  == {email, phone, credit_card}
TokValues == {ValPhone, ValIp}

\* the strings callers look up: tokens of the documented format, minted here
\* or elsewhere, and strings that are not tokens
ProbeStrings ==
    { format_token(phone, s) : s \in Suffixes }
    \cup { <<"T","O","K","E","N","_","I","p","_","a","_","b">>,
           <<"T","O","K","E","N","_","a","b","c">>,
           <<"T","O","K","E","N","_","_","x">>,
           <<"T","O","K","E","N","_">>,
           <<"t","o","k","e","n","_","a","_","b">>,
           ValIp,
           <<>> }

NoProbe == [called |-> FALSE, token |-> <<>>, entity_type |-> <<>>, original_value |-> <<>>]

\* the callers that share one Tokenizer
Threads == {"t1", "t2"}

\* a caller that has not called generate_token yet
IdleThread ==
    [pc |-> "idle", entity_type |-> <<>>, entity_value |-> <<>>, token |-> <<>>,
     result |-> <<>>]

TokInit ==
    /\ entity_tokens = EmptyDict
    /\ token_entities = EmptyDict
    /\ calls = <<>>
    /\ nCalls = 0
    /\ dropped = [values |-> {}, tokens |-> {}]
    /\ probe = NoProbe
    /\ thr = [t \in Threads |-> IdleThread]

\* a caller runs tokenizer.generate_token(entity_type, entity_value)
GenerateToken(entity_type, entity_value) ==
    /\ nCalls < MaxCalls
    /\ \E entity_hash \in Suffixes :
          LET r == generate_token(entity_tokens, token_entities,
                                  entity_type, entity_value, entity_hash)
          IN  /\ entity_tokens' = r.entity_tokens
              /\ token_entities' = r.token_entities
              /\ calls' = Append(calls, [entity_type  |-> entity_type,
                                          entity_value |-> entity_value,
                                          token        |-> r.token])
    /\ nCalls' = nCalls + 1
    /\ UNCHANGED <<dropped, probe, thr, sync, engVars>>

\* a caller runs tokenizer.clear_tokens()
ClearTokens ==
    /\ nCalls < MaxCalls
    /\ LET r == clear_tokens(entity_tokens, token_entities)
       IN  /\ entity_tokens' = r.entity_tokens
           /\ token_entities' = r.token_entities
    /\ dropped' = [values |-> dropped.values \cup DOMAIN entity_tokens,
                   tokens |-> dropped.tokens \cup DOMAIN token_entities
                                \cup { entity_tokens[v] : v \in DOMAIN entity_tokens }]
    /\ calls' = <<>>
    /\ nCalls' = nCalls + 1
    /\ UNCHANGED <<probe, thr, sync, engVars>>

\* a caller runs tokenizer.get_entity_type_from_token(token) and
\* tokenizer.get_original_value(token)
Lookup(token) ==
    /\ nCalls < MaxCalls
    /\ nCalls' = nCalls + 1
    /\ probe' = [called         |-> TRUE,
                 token          |-> token,
                 entity_type    |-> get_entity_type_from_token(token_entities, token),
                 original_value |-> get_original_value(token_entities, token)]
    /\ UNCHANGED <<entity_tokens, token_entities, calls, dropped, thr, sync, engVars>>

---------------------------------------------------------------------------
(* generate_token run by concurrent callers on one Tokenizer, one statement *)
(* at a time. pc names the statement a caller executes next: "check" is the *)
(* test of line 30, "fetch" the return of line 31, "build" lines 34-38,     *)
(* "store_value" line 41, "store_token" line 42, "return" line 44.          *)

\* the entity types and values the concurrent callers pass
ThreadTypes  == {email, phone}
ThreadValues == {ValPhone, ValIp}

\* the test of line 30 that never finds the value
has_token_never(et, entity_value) == FALSE

\* line 30: entity_value in self.entity_tokens
has_token(et, entity_value) == entity_value \in DOMAIN et

\* what the thread steps leave alone
thrUnchanged == <<calls, nCalls, dropped, probe, sync, engVars>>

\* no other caller is inside generate_token: the caller self can take, or
\* holds, the lock that synchronized callers put around each call
holds_lock(self) ==
    \A other \in Threads \ {self} : thr[other].pc \in {"idle", "done"}

\* callers that synchronize step only while they hold the lock
may_step(self) == sync => holds_lock(self)

\* the caller self enters generate_token(entity_type, entity_value)
ThreadCall(self, entity_type, entity_value) ==
    /\ may_step(self)
    /\ thr[self].pc = "idle"
    /\ thr' = [thr EXCEPT ![self] = [@ EXCEPT !.pc = "check",
                                              !.entity_type = entity_type,
                                              !.entity_value = entity_value]]
    /\ UNCHANGED <<entity_tokens, token_entities, thrUnchanged>>

\* line 30: if entity_value in self.entity_tokens
ThreadCheck(self) ==
    /\ may_step(self)
    /\ thr[self].pc = "check"
    /\ thr' = [thr EXCEPT ![self].pc =
                  IF has_token(entity_tokens, thr[self].entity_value)
                  THEN "fetch" ELSE "build"]
    /\ UNCHANGED <<entity_tokens, token_entities, thrUnchanged>>

\* line 31: return self.entity_tokens[entity_value]
ThreadFetch(self) ==
    /\ may_step(self)
    /\ thr[self].pc = "fetch"
    /\ thr' = [thr EXCEPT ![self] = [@ EXCEPT !.pc = "done",
                                              !.result = entity_tokens[thr[self].entity_value]]]
    /\ UNCHANGED <<entity_tokens, token_entities, thrUnchanged>>

\* lines 34-38: the suffix is drawn and the token string is built
ThreadBuild(self) ==
    /\ may_step(self)
    /\ thr[self].pc = "build"
    /\ \E entity_hash \in Suffixes :
          thr' = [thr EXCEPT ![self] = [@ EXCEPT !.pc = "store_value",
                                                !.token = format_token(thr[self].entity_type,
                                                                       entity_hash)]]
    /\ UNCHANGED <<entity_tokens, token_entities, thrUnchanged>>

\* line 41: self.entity_tokens[entity_value] = token
ThreadStoreValue(self) ==
    /\ may_step(self)
    /\ thr[self].pc = "store_value"
    /\ entity_tokens' = DictSet(entity_tokens, thr[self].entity_value, thr[self].token)
    /\ thr' = [thr EXCEPT ![self].pc = "store_token"]
    /\ UNCHANGED <<token_entities, thrUnchanged>>

\* line 42: self.token_entities[token] = (entity_type, entity_value)
ThreadStoreToken(self) ==
    /\ may_step(self)
    /\ thr[self].pc = "store_token"
    /\ token_entities' = DictSet(token_entities, thr[self].token,
                                 <<thr[self].entity_type, thr[self].entity_value>>)
    /\ thr' = [thr EXCEPT ![self].pc = "return"]
    /\ UNCHANGED <<entity_tokens, thrUnchanged>>

\* line 44: return token
ThreadReturn(self) ==
    /\ may_step(self)
    /\ thr[self].pc = "return"
    /\ thr' = [thr EXCEPT ![self] = [@ EXCEPT !.pc = "done", !.result = thr[self].token]]
    /\ UNCHANGED <<entity_tokens, token_entities, thrUnchanged>>

---------------------------------------------------------------------------
(* RoleManager. A role record is a dict with the keys 'allowed_entities'   *)
(* and 'can_restore'; its 'description' is read by no modelled operation.  *)
(* A record loaded from a configuration may lack a key.                    *)

RoleRecord(allowed_entities, can_restore_flag) ==
    [allowed_entities |-> allowed_entities, can_restore |-> can_restore_flag]

\* RoleManager._load_default_roles
default_roles ==
    [r \in {"public", "internal", "manager", "admin", "security"} |->
        CASE r = "public"   -> RoleRecord({}, FALSE)
          [] r = "internal" -> RoleRecord({name}, FALSE)
          [] r = "manager"  -> RoleRecord({name, email}, TRUE)
          [] r = "admin"    -> RoleRecord({name, email, phone, ip_address}, TRUE)
          [] r = "security" -> RoleRecord({name, email, phone, ip_address, ssn, credit_card}, TRUE)]

\* RoleManager.load_roles: self.roles.update(roles_config)
load_roles(rs, roles_config) ==
    [r \in DOMAIN rs \cup DOMAIN roles_config |->
        IF r \in DOMAIN roles_config THEN roles_config[r] ELSE rs[r]]

\* RoleManager.add_role
add_role(rs, role_name, allowed_entities, can_restore_flag) ==
    DictSet(rs, role_name, RoleRecord(allowed_entities, can_restore_flag))

\* get_allowed_entities that fails open: a role missing from the table sees
\* every built-in entity type
get_allowed_entities_fail_open(rs, role_name) ==
    IF role_name \notin DOMAIN rs
    THEN [raised |-> FALSE, value |-> {name, email, phone, ip_address, ssn, credit_card}]
    ELSE IF "allowed_entities" \in DOMAIN rs[role_name]
         THEN [raised |-> FALSE, value |-> rs[role_name].allowed_entities]
         ELSE [raised |-> TRUE, value |-> {}]

\* RoleManager.get_allowed_entities: the set returned, or raised = TRUE when
\* the lookup self.roles[role_name]['allowed_entities'] raises KeyError
get_allowed_entities(rs, role_name) ==
    IF role_name \notin DOMAIN rs
    THEN [raised |-> FALSE, value |-> {}]
    ELSE IF "allowed_entities" \in DOMAIN rs[role_name]
         THEN [raised |-> FALSE, value |-> rs[role_name].allowed_entities]
         ELSE [raised |-> TRUE, value |-> {}]

\* RoleManager.can_restore
can_restore(rs, role_name) ==
    IF role_name \notin DOMAIN rs THEN FALSE
    ELSE IF "can_restore" \in DOMAIN rs[role_name]
         THEN rs[role_name].can_restore
         ELSE FALSE

\* role_hierarchy_check: the rank of each built-in role
role_levels ==
    [r \in {"public", "internal", "manager", "admin", "security"} |->
        CASE r = "public"   -> 0
          [] r = "internal" -> 1
          [] r = "manager"  -> 2
          [] r = "admin"    -> 3
          [] r = "security" -> 4]

\* role_levels.get(role_name, default)
level_get(role_name, default) ==
    IF role_name \in DOMAIN role_levels THEN role_levels[role_name] ELSE default

\* RoleManager.role_hierarchy_check; it does not read self.roles
role_hierarchy_check(requester_role, target_role) ==
    level_get(requester_role, -1) >= level_get(target_role, 0)

\* The "roles" section the CLI's generate-config writes
SampleConfig ==
    [r \in {"contractor", "analyst"} |->
        IF r = "contractor" THEN RoleRecord({name}, FALSE)
        ELSE RoleRecord({name, email, code}, TRUE)]

\* A configuration whose role record has no 'allowed_entities' key
PartialConfig == [r \in {"guest"} |-> [can_restore |-> TRUE]]

RoleConfigs == {SampleConfig, PartialConfig}

\* the role names callers pass; "ghost" is never added to the table
AddableRoles == {"auditor", "public"}
RoleNames == {"public", "internal", "manager", "security", "guest", "auditor", "ghost"}
AllowedChoices == {{}, {name, name_internal}}

RolesInit ==
    /\ roles = default_roles
    /\ nRoleOps = 0

\* a caller runs role_manager.add_role(role_name, allowed_entities, can_restore)
AddRole(role_name, allowed_entities, can_restore_flag) ==
    /\ nRoleOps < MaxRoleOps
    /\ roles' = add_role(roles, role_name, allowed_entities, can_restore_flag)
    /\ nRoleOps' = nRoleOps + 1
    /\ UNCHANGED <<doc, nRedacts, rest, nRestores, prev, iter_order>>
    /\ UNCHANGED tokVars

\* load_config hands the "roles" section of a configuration to load_roles
LoadRoles(roles_config) ==
    /\ nRoleOps < MaxRoleOps
    /\ roles' = load_roles(roles, roles_config)
    /\ nRoleOps' = nRoleOps + 1
    /\ UNCHANGED <<doc, nRedacts, rest, nRestores, prev, iter_order>>
    /\ UNCHANGED tokVars

---------------------------------------------------------------------------
(* SafeDisclosure: detection, redaction, restoration.                      *)

\* SafeDisclosure._load_default_patterns: the entity types, in dict order
entity_patterns == <<email, phone, ssn, credit_card, ip_address, name>>

\* set(re.findall(pattern, text)) for the default pattern of entity_type, on
\* the texts of the model: what Python's re returns for each of them
re_findall(entity_type, text) ==
    CASE text = TextContact ->
            (CASE entity_type = email -> {ValEmail}
               [] entity_type = phone -> {ValPhone}
               [] entity_type = name  -> {ValName}
               [] OTHER -> {})
      [] text = TextMailbox ->
            (CASE entity_type = email -> {ValMailbox}
               [] entity_type = phone -> {ValPhone}
               [] OTHER -> {})
      [] text = TextServer ->
            (CASE entity_type = ip_address -> {ValIp}
               [] entity_type = name       -> {ValAlBo}
               [] OTHER -> {})
      [] OTHER -> {}

\* the first loop of _find_entities: a dict entity_type -> set of matches, as
\* the sequence of its <<key, value>> pairs in insertion order
RECURSIVE find_by_patterns(_, _)
find_by_patterns(patterns, text) ==
    IF patterns = <<>> THEN <<>>
    ELSE LET matches == re_findall(Head(patterns), text)
             found   == find_by_patterns(Tail(patterns), text)
         IN  IF matches # {} THEN <<<<Head(patterns), matches>>>> \o found ELSE found

\* entities_found.setdefault(entity_type, set()).update(found_custom)
setdefault_update(entities_found, entity_type, found_custom) ==
    IF \E i \in 1..Len(entities_found) : entities_found[i][1] = entity_type
    THEN [i \in 1..Len(entities_found) |->
            IF entities_found[i][1] = entity_type
            THEN <<entity_type, entities_found[i][2] \cup found_custom>>
            ELSE entities_found[i]]
    ELSE Append(entities_found, <<entity_type, found_custom>>)

\* the second loop of _find_entities, over custom_entities.items()
RECURSIVE add_custom(_, _, _)
add_custom(entities_found, custom_entities, text) ==
    IF custom_entities = <<>> THEN entities_found
    ELSE LET entity_type  == Head(custom_entities)[1]
             entity_list  == Head(custom_entities)[2]
             found_custom == { entity_list[i] : i \in { j \in 1..Len(entity_list) :
                                                         Contains(text, entity_list[j]) } }
         IN  add_custom(IF found_custom # {}
                        THEN setdefault_update(entities_found, entity_type, found_custom)
                        ELSE entities_found,
                        Tail(custom_entities), text)

\* SafeDisclosure._find_entities; custom_entities None or {} is <<>>
find_entities(text, custom_entities) ==
    add_custom(find_by_patterns(entity_patterns, text), custom_entities, text)

\* the orders in which a for loop can enumerate a set
SetOrders(S) ==
    { f \in [1..Cardinality(S) -> S] :
        \A i, j \in 1..Cardinality(S) : i # j => f[i] # f[j] }

\* The orders in which the two nested loops of redact_document can visit the
\* <<entity_type, match>> pairs of the types that are not allowed: the types in
\* dict order, the matches of one type in any order
RECURSIVE visit_orders(_, _)
visit_orders(entities_found, allowed_entities) ==
    IF entities_found = <<>> THEN {<<>>}
    ELSE LET entity_type == Head(entities_found)[1]
             matches     == Head(entities_found)[2]
             later       == visit_orders(Tail(entities_found), allowed_entities)
         IN  IF entity_type \notin allowed_entities
             THEN { [i \in 1..Cardinality(matches) |-> <<entity_type, f[i]>>] \o l :
                       f \in SetOrders(matches), l \in later }
             ELSE later

\* the matches of entity_type in the order the visits enumerate them
visited_values(visits, entity_type) ==
    LET sel == SelectSeq(visits, LAMBDA v : v[1] = entity_type)
    IN  [i \in 1..Len(sel) |-> sel[i][2]]

\* the entries of entities_found whose set the inner loop enumerates
enumerated(entities_found, allowed_entities) ==
    { i \in 1..Len(entities_found) : entities_found[i][1] \notin allowed_entities }

\* Within one process the string hashes are fixed, so a set built from the same
\* matches is enumerated in the same order every time: the visits follow the
\* order io this process has used for a set
follows_order(visits, entities_found, allowed_entities, io) ==
    \A i \in enumerated(entities_found, allowed_entities) :
        entities_found[i][2] \in DOMAIN io =>
            visited_values(visits, entities_found[i][1]) = io[entities_found[i][2]]

\* io with the orders the visits used for the sets enumerated for the first time
record_order(visits, entities_found, allowed_entities, io) ==
    LET en == enumerated(entities_found, allowed_entities)
    IN  [S \in DOMAIN io \cup { entities_found[i][2] : i \in en } |->
            IF S \in DOMAIN io THEN io[S]
            ELSE visited_values(visits,
                    entities_found[CHOOSE i \in en : entities_found[i][2] = S][1])]

\* token_mapping[token] = match on a dict kept in insertion order
mapping_set(token_mapping, token, match) ==
    IF \E i \in 1..Len(token_mapping) : token_mapping[i][1] = token
    THEN [i \in 1..Len(token_mapping) |->
            IF token_mapping[i][1] = token THEN <<token, match>> ELSE token_mapping[i]]
    ELSE Append(token_mapping, <<token, match>>)

\* the body of the inner loop of redact_document, for one match
redact_step(acc, entity_type, match, entity_hash) ==
    LET r == generate_token(acc.entity_tokens, acc.token_entities,
                            entity_type, match, entity_hash)
    IN  [redacted_text  |-> Replace(acc.redacted_text, match, r.token),
         token_mapping  |-> mapping_set(acc.token_mapping, r.token, match),
         entity_tokens  |-> r.entity_tokens,
         token_entities |-> r.token_entities]

\* the loops of redact_document over the visits, hashes[v] the suffix drawn
\* by the generate_token call that mints the token of the value v (a value
\* that has a token draws none)
RECURSIVE redact_loop(_, _, _)
redact_loop(acc, visits, hashes) ==
    IF visits = <<>> THEN acc
    ELSE LET match       == Head(visits)[2]
             entity_hash == IF match \in DOMAIN hashes THEN hashes[match] ELSE <<>>
         IN  redact_loop(redact_step(acc, Head(visits)[1], match, entity_hash),
                         Tail(visits), hashes)

\* SafeDisclosure.redact_document on the engine whose Tokenizer is <<et, te>>:
\* the redacted text, the token mapping and the Tokenizer afterwards
redact_document(et, te, text, visits, hashes) ==
    redact_loop([redacted_text  |-> text,
                 token_mapping  |-> <<>>,
                 entity_tokens  |-> et,
                 token_entities |-> te],
                visits, hashes)

\* the loop of restore_document over token_mapping.items()
RECURSIVE restore_loop(_, _, _, _)
restore_loop(restored_text, token_mapping, te, allowed_entities) ==
    IF token_mapping = <<>> THEN restored_text
    ELSE LET token          == Head(token_mapping)[1]
             original_value == Head(token_mapping)[2]
             entity_type    == get_entity_type_from_token(te, token)
         IN  restore_loop(IF entity_type \in allowed_entities
                          THEN Replace(restored_text, token, original_value)
                          ELSE restored_text,
                          Tail(token_mapping), te, allowed_entities)

\* SafeDisclosure.restore_document on the engine whose role table is rs and
\* whose Tokenizer's token_entities is te
restore_document(rs, te, redacted_text, token_mapping, requester_role) ==
    IF ~can_restore(rs, requester_role)
    THEN [raised |-> FALSE, restored_text |-> redacted_text]
    ELSE LET allowed == get_allowed_entities(rs, requester_role)
         IN  IF allowed.raised
             THEN [raised |-> TRUE, restored_text |-> redacted_text]
             ELSE [raised |-> FALSE,
                   restored_text |-> restore_loop(redacted_text, token_mapping,
                                                  te, allowed.value)]

---------------------------------------------------------------------------
(* Calls on one engine instance sd, and restoration in a fresh process.    *)

ValSee == <<"s","e","e">>

\* the custom_entities arguments callers pass: none, {'code': ['CODE', 'see']},
\* {'name_internal': ['Al Bo']}
NoCustom     == <<>>
CustomCode   == <<<<code, <<ValCode, ValSee>>>>>>
CustomName   == <<<<name_internal, <<ValAlBo>>>>>>

\* the <<text, custom_entities>> arguments of the redact_document calls
DocInputs ==
    {<<TextContact, NoCustom>>, <<TextMailbox, NoCustom>>, <<TextServer, NoCustom>>,
     <<TextServer, CustomName>>, <<TextMemo, CustomCode>>}

\* a token of another session and a text and token map that carry it
StaleToken   == format_token(name_internal, [k \in 1..HashLen |-> "f"])
StaleText    == StaleToken \o <<" ">> \o ValIp
StaleMapping == <<<<StaleToken, ValAlBo>>>>

NoDoc ==
    [called |-> FALSE, raised |-> FALSE, text |-> <<>>, target_role |-> "",
     role_known |-> FALSE, custom_entities |-> <<>>, allowed_entities |-> {}, entities_found |-> <<>>,
     redacted_text |-> <<>>, token_mapping |-> <<>>]

NoRest ==
    [called |-> FALSE, raised |-> FALSE, fresh |-> FALSE, redacted_text |-> <<>>,
     token_mapping |-> <<>>, requester_role |-> "", role_known |-> FALSE,
     can_restore |-> FALSE,
     allowed_entities |-> {}, restored_text |-> <<>>]

EngInit ==
    /\ doc = NoDoc
    /\ nRedacts = 0
    /\ rest = NoRest
    /\ nRestores = 0
    /\ prev = NoDoc
    /\ iter_order = EmptyDict

\* sd.redact_document(text, target_role, custom_entities) runs on the engine
RedactCall(text, target_role, custom_entities) ==
    /\ nRedacts' = nRedacts + 1
    /\ rest' = NoRest
    /\ prev' = doc
    /\ LET allowed == get_allowed_entities(roles, target_role)
           found   == find_entities(text, custom_entities)
       IN  IF allowed.raised
           THEN /\ doc' = [NoDoc EXCEPT !.called = TRUE, !.raised = TRUE, !.text = text,
                                        !.target_role = target_role,
                                        !.role_known = target_role \in DOMAIN roles,
                                        !.custom_entities = custom_entities]
                /\ UNCHANGED <<entity_tokens, token_entities, iter_order>>
           ELSE \E visits \in visit_orders(found, allowed.value) :
                \E hashes \in [{ visits[i][2] : i \in 1..Len(visits) }
                                    \ DOMAIN entity_tokens -> Suffixes] :
                   /\ follows_order(visits, found, allowed.value, iter_order)
                   /\ iter_order' = record_order(visits, found, allowed.value, iter_order)
                   /\ LET r == redact_document(entity_tokens, token_entities,
                                               text, visits, hashes)
                      IN  /\ doc' = [called |-> TRUE, raised |-> FALSE, text |-> text,
                                     target_role |-> target_role,
                                     role_known |-> target_role \in DOMAIN roles,
                                     custom_entities |-> custom_entities,
                                     allowed_entities |-> allowed.value,
                                     entities_found |-> found,
                                     redacted_text |-> r.redacted_text,
                                     token_mapping |-> r.token_mapping]
                          /\ entity_tokens' = r.entity_tokens
                          /\ token_entities' = r.token_entities
    /\ UNCHANGED <<roles, nRoleOps, nRestores, calls, nCalls, dropped, probe, thr, sync>>

\* a caller runs sd.redact_document(text, target_role, custom_entities)
Redact(text, target_role, custom_entities) ==
    /\ nRedacts < MaxRedacts
    /\ RedactCall(text, target_role, custom_entities)

\* the arguments of the calls of a session that redacts repeatedly
SessionInputs == {<<TextMailbox, NoCustom>>, <<TextServer, CustomName>>, <<TextMemo, CustomCode>>}
SessionRoles  == {"public", "manager"}

\* one call of a session of redact_document calls on one engine
RedactInSession(text, target_role, custom_entities) ==
    /\ nRedacts < MaxSessionRedacts
    /\ RedactCall(text, target_role, custom_entities)

\* the <<text, token map>> pairs handed to restore_document: what the last
\* redact_document returned, or a text and map of another session
RestoreInputs ==
    (IF doc.called /\ ~doc.raised
     THEN {<<doc.redacted_text, doc.token_mapping>>} ELSE {})
    \cup {<<StaleText, StaleMapping>>}

\* restore_document(redacted_text, token_mapping, requester_role), run on sd
\* (fresh = FALSE) or, as the CLI's restore command does, on a newly
\* constructed SafeDisclosure() that only receives the token map (fresh = TRUE)
Restore(input, requester_role, fresh) ==
    /\ nRestores < MaxRestores
    /\ nRestores' = nRestores + 1
    /\ input \in RestoreInputs
    /\ LET rs == IF fresh THEN default_roles ELSE roles
           te == IF fresh THEN EmptyDict ELSE token_entities
           r  == restore_document(rs, te, input[1], input[2], requester_role)
       IN  rest' = [called |-> TRUE, raised |-> r.raised, fresh |-> fresh,
                    redacted_text |-> input[1], token_mapping |-> input[2],
                    requester_role |-> requester_role,
                    role_known |-> requester_role \in DOMAIN rs,
                    can_restore |-> can_restore(rs, requester_role),
                    allowed_entities |-> get_allowed_entities(rs, requester_role).value,
                    restored_text |-> r.restored_text]
    /\ UNCHANGED <<roles, nRoleOps, doc, nRedacts, prev, iter_order>>
    /\ UNCHANGED tokVars

---------------------------------------------------------------------------
(* Specifications.                                                         *)

Init == TokInit /\ RolesInit /\ EngInit /\ sync = FALSE

\* a Tokenizer shared by two callers, who synchronize their calls or do not
InitThreads == TokInit /\ RolesInit /\ EngInit /\ sync \in BOOLEAN

\* the engine: role table changes, redaction, restoration
Next ==
    \/ \E role_name \in AddableRoles, allowed_entities \in AllowedChoices,
          can_restore_flag \in BOOLEAN :
            AddRole(role_name, allowed_entities, can_restore_flag)
    \/ \E roles_config \in RoleConfigs : LoadRoles(roles_config)
    \/ \E input \in DocInputs, target_role \in RoleNames :
            Redact(input[1], target_role, input[2])
    \/ \E input \in RestoreInputs, requester_role \in RoleNames, fresh \in BOOLEAN :
            Restore(input, requester_role, fresh)

Spec == Init /\ [][Next]_vars

\* one Tokenizer used directly
NextTok ==
    \/ \E entity_type \in TokTypes, entity_value \in TokValues :
            GenerateToken(entity_type, entity_value)
    \/ ClearTokens
    \/ \E token \in ProbeStrings : Lookup(token)

SpecTok == Init /\ [][NextTok]_vars

\* two callers of generate_token on one Tokenizer, interleaved statement by
\* statement
NextThreads ==
    \E self \in Threads :
        \/ \E entity_type \in ThreadTypes, entity_value \in ThreadValues :
                ThreadCall(self, entity_type, entity_value)
        \/ ThreadCheck(self)
        \/ ThreadFetch(self)
        \/ ThreadBuild(self)
        \/ ThreadStoreValue(self)
        \/ ThreadStoreToken(self)
        \/ ThreadReturn(self)

SpecThreads == InitThreads /\ [][NextThreads]_vars

\* one engine redacting repeatedly
NextSession ==
    \E input \in SessionInputs, target_role \in SessionRoles :
        RedactInSession(input[1], target_role, input[2])

SpecSession == Init /\ [][NextSession]_vars

---------------------------------------------------------------------------
(* Claims about the Tokenizer, checked under SpecTok.                      *)

\* a Tokenizer that minted nothing: the registry of another process
FreshRegistry == EmptyDict

\* the i-th call minted its token: no earlier call passed the same value
MintingCall(i) ==
    \A j \in 1..(i - 1) : calls[j].entity_value # calls[i].entity_value

\* C6: every token generate_token(ty, v) returned, parsed by
\* get_entity_type_from_token on a different, empty Tokenizer, gives exactly
\* ty. (Stated for the calls that minted the token they returned.)
C6_TypeRecoverableFromString ==
    \A i \in 1..Len(calls) :
        MintingCall(i) =>
            get_entity_type_from_token(FreshRegistry, calls[i].token)
                = calls[i].entity_type

\* no suffix was drawn twice for one type: calls for different values returned
\* different tokens
CallTokensDistinct ==
    \A i, j \in 1..Len(calls) :
        calls[i].entity_value # calls[j].entity_value => calls[i].token # calls[j].token

\* C7: until clear_tokens, every token t that a call generate_token(ty, v)
\* returned keeps get_entity_type_from_token(t) = ty and
\* get_original_value(t) = v, whatever calls came before or after it, also for
\* a call whose value was minted earlier under another type. (Stated for the
\* registries in which no two values share a token.)
C7_ReturnedTokenKeepsTypeAndValue ==
    CallTokensDistinct =>
        \A i \in 1..Len(calls) :
            /\ get_entity_type_from_token(token_entities, calls[i].token)
                    = calls[i].entity_type
            /\ get_original_value(token_entities, calls[i].token)
                    = calls[i].entity_value

\* entity_tokens[v] = t if and only if token_entities[t] = <<some type, v>>
MutualInverses(et, te) ==
    /\ \A v \in DOMAIN et : et[v] \in DOMAIN te /\ te[et[v]][2] = v
    /\ \A t \in DOMAIN te : te[t][2] \in DOMAIN et /\ et[te[t][2]] = t

\* C8: after every call the two mappings are mutual inverses, and no
\* generate_token call rebinds a token that is bound to another value.
C8_InversesAndNeverRebound ==
    [][ /\ MutualInverses(entity_tokens', token_entities')
        /\ \A t \in DOMAIN token_entities \cap DOMAIN token_entities' :
              token_entities'[t][2] = token_entities[t][2] ]_vars

\* C9: between two clear_tokens, any two generate_token calls with the same
\* entity value returned the identical token, whatever was minted in between.
C9_SameValueSameToken ==
    \A i, j \in 1..Len(calls) :
        calls[i].entity_value = calls[j].entity_value => calls[i].token = calls[j].token

\* C9 witness: a value was passed twice, a call for another value in between
C9_Witness ==
    \E i, j, k \in 1..Len(calls) :
        /\ i < j /\ j < k
        /\ calls[i].entity_value = calls[k].entity_value
        /\ calls[j].entity_value # calls[i].entity_value
        /\ calls[i].token = calls[k].token

\* C13: clear_tokens, in any registry state, leaves both mappings empty, and
\* right after it get_original_value of every token minted before returns the
\* token itself; a later generate_token for a value whose binding was cleared
\* creates a binding that is present in both mappings.
C13_ClearEmptiesBothMappings ==
    [][ /\ ClearTokens =>
              /\ entity_tokens' = EmptyDict
              /\ token_entities' = EmptyDict
              /\ \A t \in dropped'.tokens : get_original_value(token_entities', t) = t
        /\ \A entity_type \in TokTypes, entity_value \in TokValues :
              ( /\ GenerateToken(entity_type, entity_value)
                /\ entity_value \in dropped.values
                /\ entity_value \notin DOMAIN entity_tokens ) =>
                  /\ entity_value \in DOMAIN entity_tokens'
                  /\ entity_tokens'[entity_value] = calls'[Len(calls')].token
                  /\ entity_tokens'[entity_value] \in DOMAIN token_entities'
                  /\ token_entities'[entity_tokens'[entity_value]]
                        = <<entity_type, entity_value>> ]_vars

\* C13 witness: a value was minted, clear_tokens removed its binding, and a
\* later generate_token bound it again
C13_Witness ==
    /\ dropped.values # {}
    /\ \E v \in dropped.values : v \in DOMAIN entity_tokens

\* the text of s between the prefix and the first delimiter after it, in
\* lower case, when s starts with the prefix and has a delimiter after it;
\* the sentinel otherwise
ExpectedType(s) ==
    LET n == Len(token_prefix)
        delimiters == { k \in (n + 1)..Len(s) : s[k] = "_" }
    IN  IF StartsWith(s, token_prefix) /\ delimiters # {}
        THEN LET first == CHOOSE k \in delimiters : \A j \in delimiters : k <= j
             IN  Lower(SubSeq(s, n + 1, first - 1))
        ELSE unknown

\* C14: a lookup leaves the registry unchanged, and for a string s that is not
\* a key of token_entities get_original_value(s) returns s itself and
\* get_entity_type_from_token(s) returns the lower-cased type segment (the
\* text between the prefix and the next delimiter) when s starts with the
\* prefix and has a delimiter-separated type segment and suffix, and 'unknown'
\* otherwise.
C14_LookupsTotalAndPure ==
    [][ \A s \in ProbeStrings :
          Lookup(s) =>
              /\ entity_tokens' = entity_tokens
              /\ token_entities' = token_entities
              /\ s \notin DOMAIN token_entities =>
                    /\ probe'.original_value = s
                    /\ probe'.entity_type = ExpectedType(s) ]_vars

\* C14 witness: with tokens in the registry, a string that starts with the
\* prefix, has no delimiter after it and is no key of token_entities was
\* looked up, and the sentinel came back
C14_Witness ==
    /\ probe.called
    /\ token_entities # EmptyDict
    /\ probe.token \notin DOMAIN token_entities
    /\ StartsWith(probe.token, token_prefix)
    /\ probe.entity_type = unknown
    /\ probe.original_value = probe.token

---------------------------------------------------------------------------
(* Claims about concurrent callers, checked under SpecThreads.             *)

\* both callers passed the same value and both calls returned
BothReturnedSameValue ==
    /\ \A t \in Threads : thr[t].pc = "done"
    /\ \A t, u \in Threads : thr[t].entity_value = thr[u].entity_value

\* every token_entities entry is the token of its value in entity_tokens
NoOrphanToken ==
    \A t \in DOMAIN token_entities :
        /\ token_entities[t][2] \in DOMAIN entity_tokens
        /\ entity_tokens[token_entities[t][2]] = t

\* C15: with two callers running generate_token concurrently on one Tokenizer
\* and no lock, interleaved statement by statement, the two mappings are
\* mutual inverses in every state a caller can observe and after both calls,
\* and two calls for the same value return the same token, no orphan token
\* left in token_entities.
C15_ConcurrentMintSafeWithoutLock ==
    ~sync =>
        /\ MutualInverses(entity_tokens, token_entities)
        /\ BothReturnedSameValue =>
              /\ \A t, u \in Threads : thr[t].result = thr[u].result
              /\ NoOrphanToken

\* no call is in progress
Quiescent == \A t \in Threads : thr[t].pc \in {"idle", "done"}

\* C15 as amended: with mutual exclusion around each generate_token call,
\* whenever no call is in progress every entity_tokens value is a key of
\* token_entities and every token_entities entry is the token of its value,
\* and two calls for the same value return the same token.
C15_SynchronizedMintSafe ==
    sync =>
        /\ Quiescent =>
              /\ \A v \in DOMAIN entity_tokens : entity_tokens[v] \in DOMAIN token_entities
              /\ NoOrphanToken
        /\ BothReturnedSameValue =>
              \A t, u \in Threads : thr[t].result = thr[u].result

\* C15 witness: both callers passed the same value under different types, one
\* minted its token and the other got that token back
C15_Witness ==
    /\ sync
    /\ BothReturnedSameValue
    /\ \E t, u \in Threads :
          /\ thr[t].entity_type # thr[u].entity_type
          /\ thr[t].token # <<>> /\ thr[u].token = <<>>
          /\ thr[u].result = thr[t].token

---------------------------------------------------------------------------
(* Claims about redaction and restoration, checked under Spec.             *)

\* the detected <<entity_type, value>> pairs of the last redact_document call
Detected ==
    UNION { {doc.entities_found[i][1]} \X doc.entities_found[i][2] :
              i \in 1..Len(doc.entities_found) }

\* the tokens that are keys of a token mapping
MappingTokens(token_mapping) == { token_mapping[k][1] : k \in 1..Len(token_mapping) }

\* C1: for a role name that is not a key of the role table, whatever
\* add_role / load_roles did to the table, redact_document uses the empty
\* allowed set and mints and returns a token for every detected value of every
\* type; restore_document returns its input text unchanged; neither raises.
C1_UnknownRoleFailsClosed ==
    /\ (doc.called /\ ~doc.role_known) =>
          /\ ~doc.raised
          /\ doc.allowed_entities = {}
          /\ \A p \in Detected :
                /\ p[2] \in DOMAIN entity_tokens
                /\ entity_tokens[p[2]] \in MappingTokens(doc.token_mapping)
    /\ (rest.called /\ ~rest.role_known) =>
          /\ ~rest.raised
          /\ rest.restored_text = rest.redacted_text

\* C1 witness: after the role table was changed, a text with detected values was
\* redacted for a role missing from the table, and its output was handed to
\* restore_document with a role missing from the table
C1_Witness ==
    /\ roles # default_roles
    /\ doc.called /\ ~doc.role_known /\ Cardinality(Detected) >= 2
    /\ rest.called /\ ~rest.role_known
    /\ rest.token_mapping = doc.token_mapping /\ rest.token_mapping # <<>>

\* the detected values that every type they were detected under is allowed for
AllowedValues ==
    { p[2] : p \in { q \in Detected :
                       \A o \in Detected : o[2] = q[2] => o[1] \in doc.allowed_entities } }

\* the detected values of the types that are not allowed
DisallowedValues == { p[2] : p \in { q \in Detected : q[1] \notin doc.allowed_entities } }

\* no two values tokenized by the last redact_document call share a token
\* (no suffix was drawn twice for one type)
TokensDistinct ==
    \A v, w \in DisallowedValues : v # w => entity_tokens[v] # entity_tokens[w]

\* C2: every detected value whose entity type is in the role's allowed set is
\* left untouched by redact_document: each of its occurrences in the input is
\* still present in the redacted text, also when a value of a disallowed type
\* is a substring of it. (Stated for the values detected under allowed types
\* only.)
C2_AllowedValuesUntouched ==
    (doc.called /\ ~doc.raised) =>
        \A v \in AllowedValues :
            Count(doc.redacted_text, v) >= Count(doc.text, v)

\* C3: after redact_document returns, no detected value whose entity type is
\* outside the role's allowed set occurs as a substring of the redacted text,
\* whatever the order of the replacements and whatever tokens they inserted.
\* (Stated for the calls whose tokens are all distinct.)
C3_NoDisallowedValueRemains ==
    (doc.called /\ ~doc.raised /\ TokensDistinct) =>
        \A v \in DisallowedValues : ~Contains(doc.redacted_text, v)

\* C4: for a text with built-in entity types only, redacted for a built-in role,
\* restore_document with role security on the redacted text and the returned
\* token map gives back the original text, on the same engine and on a fresh one.
C4_RoundTrip ==
    ( /\ doc.called /\ ~doc.raised
      /\ doc.custom_entities = NoCustom
      /\ doc.target_role \in DOMAIN default_roles
      /\ doc.allowed_entities = default_roles[doc.target_role].allowed_entities
      /\ rest.called
      /\ rest.redacted_text = doc.redacted_text
      /\ rest.token_mapping = doc.token_mapping
      /\ rest.requester_role = "security" )
    => rest.restored_text = doc.text

\* the entity type under which a token was minted: the minting Tokenizer's
\* record, or for the token of another session the type it was minted under
MintedType(token) ==
    IF token \in DOMAIN token_entities THEN token_entities[token][1]
    ELSE IF token = StaleToken THEN name_internal
    ELSE unknown

\* C5: restore_document replaces a token by its value only if the role can
\* restore and the type the token was minted under is in the role's allowed
\* set; every other token of the map is left as it is, and for a role that
\* cannot restore the output equals the input.
C5_RestoreOnlyPermittedTypes ==
    (rest.called /\ ~rest.raised) =>
        /\ ~rest.can_restore => rest.restored_text = rest.redacted_text
        /\ \A t \in MappingTokens(rest.token_mapping) :
              (~rest.can_restore \/ MintedType(t) \notin rest.allowed_entities) =>
                  Count(rest.restored_text, t) = Count(rest.redacted_text, t)

\* C11: the token map redact_document returns has exactly one entry per
\* distinct detected value whose entity type is not in the role's allowed set,
\* each entry mapping the token substituted for that value to that value, and
\* no entry for a value detected only under allowed types.
C11_TokenMapOneEntryPerDisallowedValue ==
    (doc.called /\ ~doc.raised) =>
        /\ Len(doc.token_mapping) = Cardinality(DisallowedValues)
        /\ \A v \in DisallowedValues :
              \E k \in 1..Len(doc.token_mapping) :
                  doc.token_mapping[k] = <<entity_tokens[v], v>>
        /\ \A k \in 1..Len(doc.token_mapping) :
              doc.token_mapping[k][2] \in DisallowedValues

---------------------------------------------------------------------------
(* Claims about repeated redaction, checked under SpecSession.             *)

\* a token mapping as the set of its <<token, value>> items (dict equality
\* ignores the order of insertion)
Items(token_mapping) == { token_mapping[k] : k \in 1..Len(token_mapping) }

\* the last two redact_document calls had the same arguments
SameArguments ==
    /\ prev.called /\ doc.called
    /\ prev.text = doc.text
    /\ prev.target_role = doc.target_role
    /\ prev.custom_entities = doc.custom_entities

\* C12: two redact_document calls with the same text, role and custom entities
\* on one engine return the same redacted text and the same token map,
\* whatever order the process enumerates the sets of matches in and whatever
\* tokens earlier calls left in the registry.
C12_RedactionRepeatable ==
    SameArguments =>
        /\ doc.redacted_text = prev.redacted_text
        /\ Items(doc.token_mapping) = Items(prev.token_mapping)
        /\ Len(doc.token_mapping) = Len(prev.token_mapping)

\* C12 witness: 'see CODE' was redacted twice with the same arguments, two
\* values tokenized each time, the second time from the tokens of the first
C12_Witness ==
    /\ SameArguments
    /\ doc.text = TextMemo
    /\ MappingTokens(doc.token_mapping) \subseteq DOMAIN token_entities
    /\ Len(doc.token_mapping) = 2
    /\ doc.redacted_text = prev.redacted_text

---------------------------------------------------------------------------
(* Claims about the role hierarchy, checked under Spec.                    *)

\* the role names handed to role_hierarchy_check
HierarchyRoles == RoleNames \cup {"admin"}

\* the rank of a built-in role in public < internal < manager < admin < security
Rank(r) ==
    Cardinality({ o \in DOMAIN default_roles :
                    default_roles[o].allowed_entities
                        \subseteq default_roles[r].allowed_entities }) - 1

\* C16: in every role table reachable from the defaults through add_role and
\* load_roles, role_hierarchy_check(requester, target) = true implies that
\* get_allowed_entities(target) is a subset of get_allowed_entities(requester);
\* and for the five built-in roles it is true exactly when the requester's
\* rank is at least the target's.
C16_HierarchyImpliesPermissions ==
    /\ \A requester \in HierarchyRoles, target \in HierarchyRoles :
          ( /\ role_hierarchy_check(requester, target)
            /\ ~get_allowed_entities(roles, requester).raised
            /\ ~get_allowed_entities(roles, target).raised ) =>
              get_allowed_entities(roles, target).value
                  \subseteq get_allowed_entities(roles, requester).value
    /\ \A requester \in DOMAIN default_roles, target \in DOMAIN default_roles :
          role_hierarchy_check(requester, target) <=> Rank(requester) >= Rank(target)

===========================================================================
